---- MODULE Spec2Model ----
(***************************************************************************)
(* Model of src/ruler.py: the 15 cm on-screen ruler.                       *)
(*                                                                         *)
(* State: the RulerView fields _points_per_mm and _error_text, the host   *)
(* window (absent / open / closed), the content size last requested from  *)
(* it, the calls made on the toolkit (log, forwarded, closeRequests,      *)
(* drawn) and the display context the queries of recomputeAndResize read. *)
(* Python floats are modelled as exact rationals <<num, den>> in lowest   *)
(* terms with den > 0.  A Python str is modelled as the sequence of its    *)
(* Unicode code points, so concatenation is \o and "" is <<>>.            *)
(***************************************************************************)
EXTENDS Integers, Sequences, FiniteSets, TLC

VARIABLES
    ctx,            \* what the display queries answer right now
    win,            \* "none" (view not in a window), "open", "closed"
    points_per_mm,  \* RulerView._points_per_mm
    error_text,     \* RulerView._error_text
    contentSize,    \* <<>> or <<[w, h]>>: last setContentSize_ argument
    log,            \* calls made by recomputeAndResize, in order
    drawn,          \* <<>> or <<what the last drawRect_ rendered>>
    forwarded,      \* key events handed to the superclass keyDown_
    closeRequests,  \* number of performClose_ calls
    keys,           \* history: key-down events delivered so far
    triggers,       \* history: callbacks/notifications delivered so far
    sinceChange     \* history: recomputes since the last display change

vars == <<ctx, win, points_per_mm, error_text, contentSize, log, drawn,
          forwarded, closeRequests, keys, triggers, sinceChange>>

ScaleState == <<points_per_mm, error_text>>

---------------------------------------------------------------------------
(* Bounds of the exploration. *)
MaxTriggers == 2
MaxKeys == 1

---------------------------------------------------------------------------
(* Floats as exact rationals. *)

RECURSIVE GCD(_, _)
GCD(a, b) == IF b = 0 THEN a ELSE GCD(b, a % b)

Abs(n) == IF n < 0 THEN -n ELSE n

\* n/d in lowest terms, d # 0
Rat(n, d) ==
    LET g == GCD(Abs(n), Abs(d))
        s == IF d < 0 THEN -1 ELSE 1
    IN  <<(s * n) \div g, (s * d) \div g>>

RatOfInt(n) == <<n, 1>>
RatDiv(a, b) == Rat(a[1] * b[2], a[2] * b[1])
RatMul(a, b) == Rat(a[1] * b[1], a[2] * b[2])
RatAdd(a, b) == Rat(a[1] * b[2] + b[1] * a[2], a[2] * b[2])
RatPos(a) == a[1] > 0

---------------------------------------------------------------------------
(* Module constants of ruler.py. *)
FALLBACK_PPI == 254
MM_PER_INCH == <<127, 5>>          \* 25.4
RULER_LENGTH_MM == 150
MARGIN_PT == <<20, 1>>             \* 20.0
CONTENT_H_PT == <<90, 1>>          \* 90.0
BASELINE_Y_PT == <<28, 1>>         \* 28.0
TICK_SMALL_PT == <<10, 1>>
TICK_MED_PT == <<18, 1>>
TICK_LARGE_PT == <<28, 1>>
BackingProbeWidth == 200           \* NSMakeRect(0, 0, 200, 1)
InitialPointsPerMm == <<5, 1>>     \* 5.0

\* A Python str is the sequence of its Unicode code points.
ESC == <<27>>                       \* "\x1b"
KEY_A == <<97>>                      \* "a"
KEY_Q == <<113>>                     \* "q"
\* line 125: "Note: Using fallback PPI (system didn_t report physical mm
\* size)." where _ is U+2019 (8217), the right single quotation mark
NOTE_PPI ==
    <<78, 111, 116, 101, 58, 32, 85, 115, 105, 110, 103, 32, 102, 97, 108,
      108, 98, 97, 99, 107, 32, 80, 80, 73, 32, 40, 115, 121, 115, 116,
      101, 109, 32, 100, 105, 100, 110, 8217, 116, 32, 114, 101, 112, 111,
      114, 116, 32, 112, 104, 121, 115, 105, 99, 97, 108, 32, 109, 109, 32,
      115, 105, 122, 101, 41, 46>>
\* line 135: " (Also fell back to pixels/point=2.0.)"
NOTE_PPP ==
    <<32, 40, 65, 108, 115, 111, 32, 102, 101, 108, 108, 32, 98, 97, 99,
      107, 32, 116, 111, 32, 112, 105, 120, 101, 108, 115, 47, 112, 111,
      105, 110, 116, 61, 50, 46, 48, 46, 41>>

\* Python None / a present value
None == [some |-> FALSE, val |-> <<>>]
Some(v) == [some |-> TRUE, val |-> v]

---------------------------------------------------------------------------
(* The display context: what each toolkit query answers.  A query either  *)
(* raises (ok = FALSE) or returns val.                                    *)

Raises == [ok |-> FALSE, val |-> 0]
Returns(v) == [ok |-> TRUE, val |-> v]

Displays == {"noscreen", "badid", "ok"}
SizeAnswers == {Raises, Returns(-300), Returns(0), Returns(300)}
ModeAnswers == {Raises, Returns(0), Returns(1500), Returns(3000)}
BackingAnswers == {Raises, Returns(0), Returns(200), Returns(400)}

Contexts == [display : Displays, size : SizeAnswers,
             mode : ModeAnswers, backing : BackingAnswers]

Keys == {ESC, KEY_A, KEY_Q}

---------------------------------------------------------------------------
(* RulerView._display_id_for_screen and the screen choice before it.      *)

\* display_id: None when there is no screen or int(did) raises
DisplayId(c) == IF c.display = "ok" THEN Some(1) ELSE None

---------------------------------------------------------------------------
(* RulerView.recomputeAndResize, the pure part.                           *)

\* variant: line 109 missing
ResetErrorText_Keep(old) == old

\* line 109: self._error_text = None
ResetErrorText(old) == None

\* variant: the test of line 118 without "mm_w > 0.0"
MeasuredPixelsPerMm_NoWidthTest(c) ==
    IF c.display = "ok" /\ c.size.ok /\ c.mode.ok /\ c.mode.val > 0
    THEN Some(RatDiv(RatOfInt(c.mode.val), RatOfInt(c.size.val)))
    ELSE None

\* lines 108-121: pixels_per_mm after the try block (None when not measured)
MeasuredPixelsPerMm(c) ==
    IF DisplayId(c).some
    THEN IF c.size.ok /\ c.mode.ok
         THEN LET mm_w == RatOfInt(c.size.val)
                  px_w == RatOfInt(c.mode.val)
              IN  IF RatPos(mm_w) /\ RatPos(px_w)
                  THEN Some(RatDiv(px_w, mm_w))
                  ELSE None
         ELSE None
    ELSE None

\* lines 123-124: pixels_per_mm after the fallback
PixelsPerMm(c) ==
    IF MeasuredPixelsPerMm(c).some
    THEN MeasuredPixelsPerMm(c).val
    ELSE RatDiv(RatOfInt(FALLBACK_PPI), MM_PER_INCH)

\* lines 123-125: _error_text after the physical-size step
ErrorAfterPhysical(c, e0) ==
    IF MeasuredPixelsPerMm(c).some THEN e0 ELSE Some(NOTE_PPI)

\* lines 128-132: the try block; None when it raises
BackingRatio(c) ==
    IF c.backing.ok
    THEN LET r == RatDiv(RatOfInt(c.backing.val), RatOfInt(BackingProbeWidth))
         IN  IF RatPos(r) THEN Some(r) ELSE None
    ELSE None

\* lines 128-134: pixels_per_point
PixelsPerPoint(c) ==
    IF BackingRatio(c).some THEN BackingRatio(c).val ELSE <<2, 1>>

\* (self._error_text or "")
OrEmpty(e) == IF e.some /\ e.val # <<>> THEN e.val ELSE <<>>

\* variant: line 135 assigns the second note instead of appending it
ErrorAfterBacking_Overwrite(c, e1) ==
    IF BackingRatio(c).some THEN e1 ELSE Some(NOTE_PPP)

\* lines 133-135: _error_text after the backing step
ErrorAfterBacking(c, e1) ==
    IF BackingRatio(c).some THEN e1 ELSE Some(OrEmpty(e1) \o NOTE_PPP)

\* variant: a note, once set, is kept by later recomputes
ErrorText_Sticky(c, old) ==
    IF old.some /\ old.val # <<>>
    THEN old
    ELSE ErrorAfterBacking(c, ErrorAfterPhysical(c, None))

\* _error_text at the end of recomputeAndResize, entered with value old
ErrorText(c, old) ==
    ErrorAfterBacking(c, ErrorAfterPhysical(c, ResetErrorText(old)))

\* variant: line 137 multiplies
PointsPerMm_Times(c) == RatMul(PixelsPerMm(c), PixelsPerPoint(c))

\* line 137
PointsPerMm(c) == RatDiv(PixelsPerMm(c), PixelsPerPoint(c))

\* variant: line 140 adds the margin once
ContentWidth_OneMargin(ppm) ==
    RatAdd(MARGIN_PT, RatMul(RatOfInt(RULER_LENGTH_MM), ppm))

\* lines 139-140
ContentWidth(ppm) ==
    RatAdd(RatMul(MARGIN_PT, <<2, 1>>), RatMul(RatOfInt(RULER_LENGTH_MM), ppm))

\* lines 142-144: the calls made after the state is stored
CallsAfterStore(hasWin) ==
    (IF hasWin THEN <<"setContentSize">> ELSE <<>>) \o <<"setNeedsDisplay">>

\* variant: on the physical-size fallback the note is set but
\* _points_per_mm keeps its previous value
RecomputeAndResize_NoteOnly(hasWin) ==
    /\ points_per_mm' = IF MeasuredPixelsPerMm(ctx).some
                        THEN RatDiv(PixelsPerMm(ctx), PixelsPerPoint(ctx))
                        ELSE points_per_mm
    /\ error_text' = ErrorText(ctx, error_text)
    /\ contentSize' = IF hasWin
                      THEN <<[w |-> ContentWidth(points_per_mm'), h |-> CONTENT_H_PT]>>
                      ELSE contentSize
    /\ log' = log \o <<"store">> \o CallsAfterStore(hasWin)

\* the whole method; hasWin is (self.window() is not None)
RecomputeAndResize(hasWin) ==
    /\ points_per_mm' = PointsPerMm(ctx)
    /\ error_text' = ErrorText(ctx, error_text)
    /\ contentSize' = IF hasWin
                      THEN <<[w |-> ContentWidth(PointsPerMm(ctx)), h |-> CONTENT_H_PT]>>
                      ELSE contentSize
    /\ log' = log \o <<"store">> \o CallsAfterStore(hasWin)

---------------------------------------------------------------------------
(* RulerView.drawRect_                                                    *)

\* if self._error_text:
Truthy(e) == e.some /\ e.val # <<>>

\* lines 167-172
TickHeight(mm) ==
    IF mm % 10 = 0 THEN TICK_LARGE_PT
    ELSE IF mm % 5 = 0 THEN TICK_MED_PT
    ELSE TICK_SMALL_PT

\* line 166 and line 186
TickX(mm, ppm) == RatAdd(MARGIN_PT, RatMul(RatOfInt(mm), ppm))

\* what one drawRect_ puts on screen, from the two fields it reads
Render(ppm, err) ==
    [x1 |-> RatAdd(MARGIN_PT, RatMul(RatOfInt(RULER_LENGTH_MM), ppm)),
     lastTick |-> <<TickX(RULER_LENGTH_MM, ppm), TickHeight(RULER_LENGTH_MM)>>,
     lastLabel |-> TickX((RULER_LENGTH_MM \div 10) * 10, ppm),
     warning |-> IF Truthy(err) THEN err.val ELSE <<>>]

\* variant: the warning is cleared once it has been drawn
DrawRect_ConsumesNote ==
    /\ drawn' = <<Render(points_per_mm, error_text)>>
    /\ error_text' = None
    /\ UNCHANGED points_per_mm

DrawRect ==
    /\ drawn' = <<Render(points_per_mm, error_text)>>
    /\ UNCHANGED <<points_per_mm, error_text>>

---------------------------------------------------------------------------
(* RulerView.keyDown_                                                     *)

\* variant: "q" closes the window as Esc does
KeyDown_QCloses(chars) ==
    IF chars = ESC \/ chars = KEY_Q
    THEN /\ IF win # "none"
            THEN closeRequests' = closeRequests + 1 /\ win' = "closed"
            ELSE UNCHANGED <<closeRequests, win>>
         /\ UNCHANGED forwarded
    ELSE /\ forwarded' = Append(forwarded, chars)
         /\ UNCHANGED <<closeRequests, win>>

KeyDown(chars) ==
    IF chars = ESC
    THEN /\ IF win # "none"
            THEN closeRequests' = closeRequests + 1 /\ win' = "closed"
            ELSE UNCHANGED <<closeRequests, win>>
         /\ UNCHANGED forwarded
    ELSE /\ forwarded' = Append(forwarded, chars)
         /\ UNCHANGED <<closeRequests, win>>

---------------------------------------------------------------------------
(* Callbacks that run recomputeAndResize.                                 *)

\* variant: a notification arriving with nothing changed since the last
\* recompute is dropped
ScreenParamsChanged_Debounced ==
    IF sinceChange > 0
    THEN UNCHANGED <<points_per_mm, error_text, contentSize, log>>
    ELSE RecomputeAndResize(win # "none")

ViewDidMoveToWindow(hasWin) == RecomputeAndResize(hasWin)
ScreenParamsChanged == RecomputeAndResize(win # "none")
WindowDidChangeScreen == RecomputeAndResize(win # "none")

---------------------------------------------------------------------------
(* The state machine.                                                     *)

Init ==
    /\ ctx \in Contexts
    /\ win = "none"
    /\ points_per_mm = InitialPointsPerMm
    /\ error_text = None
    /\ contentSize = <<>>
    /\ log = <<>>
    /\ drawn = <<>>
    /\ forwarded = <<>>
    /\ closeRequests = 0
    /\ keys = <<>>
    /\ triggers = 0
    /\ sinceChange = 0

\* applicationDidFinishLaunching_: the window is created with an 800 x 90
\* content rect, the view becomes its content view (which runs
\* viewDidMoveToWindow) and the two observers are registered.
Launch ==
    /\ win = "none"
    /\ win' = "open"
    /\ ViewDidMoveToWindow(TRUE)
    /\ triggers' = triggers + 1
    /\ sinceChange' = sinceChange + 1
    /\ UNCHANGED <<ctx, drawn, forwarded, closeRequests, keys>>

\* the environment: the window moves to another display, or the display
\* configuration changes; one query answer changes per step
DisplayChange ==
    /\ win = "open"
    /\ \/ \E d \in Displays \ {ctx.display} : ctx' = [ctx EXCEPT !.display = d]
       \/ \E a \in SizeAnswers \ {ctx.size} : ctx' = [ctx EXCEPT !.size = a]
       \/ \E a \in ModeAnswers \ {ctx.mode} : ctx' = [ctx EXCEPT !.mode = a]
       \/ \E a \in BackingAnswers \ {ctx.backing} : ctx' = [ctx EXCEPT !.backing = a]
    /\ sinceChange' = 0
    /\ UNCHANGED <<win, points_per_mm, error_text, contentSize, log, drawn,
                   forwarded, closeRequests, keys, triggers>>

NotifyScreenParams ==
    /\ win = "open"
    /\ triggers < MaxTriggers
    /\ ScreenParamsChanged
    /\ triggers' = triggers + 1
    /\ sinceChange' = sinceChange + 1
    /\ UNCHANGED <<ctx, win, drawn, forwarded, closeRequests, keys>>

NotifyWindowScreen ==
    /\ win = "open"
    /\ triggers < MaxTriggers
    /\ WindowDidChangeScreen
    /\ triggers' = triggers + 1
    /\ sinceChange' = sinceChange + 1
    /\ UNCHANGED <<ctx, win, drawn, forwarded, closeRequests, keys>>

Draw ==
    /\ win = "open"
    /\ DrawRect
    /\ UNCHANGED <<ctx, win, contentSize, log, forwarded, closeRequests,
                   keys, triggers, sinceChange>>

Key ==
    /\ win = "open"
    /\ \E chars \in Keys :
          /\ chars # ESC => Len(keys) < MaxKeys
          /\ KeyDown(chars)
          /\ keys' = Append(keys, chars)
    /\ UNCHANGED <<ctx, points_per_mm, error_text, contentSize, log, drawn,
                   triggers, sinceChange>>

Next ==
    \/ Launch
    \/ DisplayChange
    \/ NotifyScreenParams
    \/ NotifyWindowScreen
    \/ Draw
    \/ Key

Spec == Init /\ [][Next]_vars

---------------------------------------------------------------------------
(* What the design document expects of a recompute, written from its      *)
(* words and independent of the operators above.                          *)

PhysUsable(c) ==
    /\ c.display = "ok"
    /\ c.size.ok /\ c.size.val > 0
    /\ c.mode.ok /\ c.mode.val > 0

ScaleUsable(c) == c.backing.ok /\ c.backing.val > 0

ExpectedPixelsPerMm(c) ==
    IF PhysUsable(c) THEN Rat(c.mode.val, c.size.val) ELSE <<10, 1>>

ExpectedUnitsPerPixel(c) ==
    IF ScaleUsable(c) THEN Rat(c.backing.val, 200) ELSE <<2, 1>>

ExpectedNote(c) ==
    IF PhysUsable(c) /\ ScaleUsable(c)
    THEN None
    ELSE Some((IF PhysUsable(c) THEN <<>> ELSE NOTE_PPI)
              \o (IF ScaleUsable(c) THEN <<>> ELSE NOTE_PPP))

ExpectedScale(c) ==
    <<RatDiv(ExpectedPixelsPerMm(c), ExpectedUnitsPerPixel(c)), ExpectedNote(c)>>

Degraded == error_text.some /\ error_text.val # <<>>

OneCycle == <<"store", "setContentSize", "setNeedsDisplay">>

RECURSIVE Cycles(_)
Cycles(k) == IF k = 0 THEN <<>> ELSE Cycles(k - 1) \o OneCycle

NonEsc(ch) == ch # ESC
IsEsc(ch) == ch = ESC

---------------------------------------------------------------------------
\* C1: when the display id, the physical width (> 0), the pixel width (> 0)
\* and the backing scale (> 0) are all obtained, the recompute stores
\* units_per_mm = (pixel_width / physical_width_mm) / units_per_pixel and
\* leaves the state without a note.
C1_MeasuredScale ==
    (sinceChange > 0 /\ PhysUsable(ctx) /\ ScaleUsable(ctx)) =>
        /\ points_per_mm = RatDiv(Rat(ctx.mode.val, ctx.size.val),
                                  Rat(ctx.backing.val, 200))
        /\ error_text = None
        /\ ~Degraded

\* 300 mm, 3000 px, ratio 2.0 gives 5.0
C1_Witness ==
    /\ sinceChange > 0
    /\ ctx = [display |-> "ok", size |-> Returns(300), mode |-> Returns(3000),
              backing |-> Returns(400)]
    /\ points_per_mm = <<5, 1>>
    /\ error_text = None

\* C2: when the physical measurement is unusable (no display id, a query
\* that raises, or a width <= 0) the recompute uses pixels_per_mm = 10, the
\* state is degraded with a non-empty note that starts with the fallback-PPI
\* text, and the stored scale is a finite number (nothing was divided by 0).
C2_PhysicalFallback ==
    (sinceChange > 0 /\ ~PhysUsable(ctx)) =>
        /\ points_per_mm[2] > 0
        /\ RatMul(points_per_mm, ExpectedUnitsPerPixel(ctx)) = <<10, 1>>
        /\ Degraded
        /\ Len(error_text.val) >= Len(NOTE_PPI)
        /\ SubSeq(error_text.val, 1, Len(NOTE_PPI)) = NOTE_PPI

\* a physical width of exactly zero, every query answering
C2_Witness ==
    /\ sinceChange > 0
    /\ ctx = [display |-> "ok", size |-> Returns(0), mode |-> Returns(3000),
              backing |-> Returns(200)]
    /\ points_per_mm = <<10, 1>>
    /\ error_text = Some(NOTE_PPI)

\* C3: when the backing-scale query raises, the recompute uses
\* units_per_pixel = 2, the state is degraded, and the note is the
\* physical-size text followed by the scale text when both fallbacks were
\* taken, the scale text alone otherwise.
C3_ScaleFallback ==
    (sinceChange > 0 /\ ~ctx.backing.ok) =>
        /\ points_per_mm = RatDiv(ExpectedPixelsPerMm(ctx), <<2, 1>>)
        /\ Degraded
        /\ error_text.val = IF PhysUsable(ctx)
                            THEN NOTE_PPP
                            ELSE NOTE_PPI \o NOTE_PPP

\* both fallbacks in one recompute
C3_Witness ==
    /\ sinceChange > 0
    /\ ~ctx.backing.ok
    /\ ~ctx.size.ok
    /\ error_text = Some(NOTE_PPI \o NOTE_PPP)
    /\ points_per_mm = <<5, 1>>

\* C4: a recompute run when the display context has not changed since the
\* previous recompute leaves units_per_mm, the note (hence degraded) and the
\* requested content size as they were.
C4_Idempotent ==
    [][(triggers' # triggers /\ sinceChange > 0) =>
          (ScaleState' = ScaleState /\ contentSize' = contentSize)]_vars

\* two recomputes on one unchanged context, the scale fallback taken
C4_Witness ==
    /\ sinceChange >= 2
    /\ ~ctx.backing.ok
    /\ PhysUsable(ctx)
    /\ error_text = Some(NOTE_PPP)

\* C5: k triggers (attachment, window-changed-screen, screen-parameters-
\* changed) have caused exactly k cycles, each one store, one resize request
\* and one redraw request in that order.
C5_OneCyclePerTrigger == log = Cycles(triggers)

C5_Witness ==
    /\ triggers >= 2
    /\ Len(log) = 3 * triggers

\* C6: a drawRect_ leaves units_per_mm and the note (hence degraded) exactly
\* as they were.
C6_DrawReadsOnly == [][drawn' # drawn => ScaleState' = ScaleState]_vars

\* a draw of a degraded state, the state still degraded afterwards
C6_Witness ==
    /\ drawn # <<>>
    /\ drawn[1].warning = NOTE_PPI \o NOTE_PPP
    /\ error_text = Some(NOTE_PPI \o NOTE_PPP)

\* C7: the state starts as (5.0, no note) and every step either leaves both
\* fields alone or replaces both by the outcome of one recompute on the
\* current context; no step changes one field and keeps the other from an
\* earlier recompute.
C7_ReplacedWholesale ==
    /\ ScaleState = <<InitialPointsPerMm, None>>
    /\ [][ScaleState' = ScaleState \/ ScaleState' = ExpectedScale(ctx)]_vars

\* a draw after a second recompute replaced a degraded state by a measured one
C7_Witness ==
    /\ triggers >= 2
    /\ drawn # <<>>
    /\ drawn[1].warning = <<>>
    /\ drawn[1].x1 = <<395, 1>>
    /\ ScaleState = <<<<5, 2>>, None>>

\* C8: the content size requested from the window is
\* (2*20 + 150*units_per_mm, 90) for the units_per_mm stored.
C8_ContentSize ==
    contentSize # <<>> =>
        contentSize = <<[w |-> RatAdd(<<40, 1>>, RatMul(<<150, 1>>, points_per_mm)),
                         h |-> <<90, 1>>]>>

\* units_per_mm = 5.0 gives width 790.0
C8_Witness ==
    /\ points_per_mm = <<5, 1>>
    /\ contentSize = <<[w |-> <<790, 1>>, h |-> <<90, 1>>]>>
    /\ Degraded

\* C9: the key events forwarded to the superclass are exactly the non-Esc
\* events, in order and unchanged; the close requests are exactly the Esc
\* events; no key event changes units_per_mm or the note.
C9_Keyboard ==
    /\ [](/\ forwarded = SelectSeq(keys, NonEsc)
          /\ closeRequests = Len(SelectSeq(keys, IsEsc)))
    /\ [][keys' # keys => ScaleState' = ScaleState]_vars

C9_Witness ==
    /\ keys = <<KEY_Q, ESC>>
    /\ forwarded = <<KEY_Q>>
    /\ closeRequests = 1
    /\ win = "closed"

\* C10: whatever happened before, once a recompute has run on the current
\* display context the stored state is the outcome for that context alone;
\* with every query answering there is no note left.
C10_HistoryIndependent ==
    sinceChange > 0 =>
        /\ ScaleState = ExpectedScale(ctx)
        /\ (PhysUsable(ctx) /\ ScaleUsable(ctx)) => error_text = None

\* a degraded state was drawn, the display changed, and the recompute that
\* followed left no note
C10_Witness ==
    /\ sinceChange > 0
    /\ drawn # <<>>
    /\ drawn[1].warning # <<>>
    /\ PhysUsable(ctx) /\ ScaleUsable(ctx)
    /\ error_text = None

====
